---- MODULE Spec2Model ----
(***************************************************************************)
(* Model of the price-history ledger of src/index.tsx: the App component's  *)
(* searchHistory state, its rehydration from localStorage on mount, the     *)
(* handleSearch flow that appends to it, and the derived chart series.      *)
(*                                                                          *)
(* JavaScript values are represented as follows.                            *)
(*   number            an integer                                           *)
(*   string            [str |-> id]  (toISOString wraps the clock reading)  *)
(*   array             a sequence                                           *)
(*   object            a record                                             *)
(*   number | null     JNum(n) or JNull (see below)                         *)
(* A JSON text is a sequence of tokens; JSON.stringify produces it and      *)
(* JSON.parse is a recursive-descent parser over it.                        *)
(***************************************************************************)
EXTENDS Integers, Sequences, FiniteSets, TLC

\* Bound of the model: how many trip-data calls may resolve; no search is
\* started after that, so the clock and the counters stop there.
MaxSearches == 8

\* Bounds of the specification that adds the form and the export (AppSpec):
\* the same limit on searches, and the largest passenger count of the form.
MaxFormSearches == 2
MaxPassengers == 2

\* The window of [...prevHistory, newHistoryEntry].slice(-7).
HistoryCap == 7

---------------------------------------------------------------------------
(* Nullable values *)

JNull == [t |-> "null", n |-> 0]
JNum(v) == [t |-> "number", n |-> v]

\* JavaScript truthiness of a number | null: null and 0 are falsy.
Truthy(x) == x.t = "number" /\ x.n # 0

Str(id) == [str |-> id]

\* new Date().toISOString(): the ISO text of the clock reading.
toISOString(t) == Str(t)

---------------------------------------------------------------------------
(* JSON texts *)

Tok(k, n, s) == [k |-> k, n |-> n, s |-> s]
LBRACK == Tok("[", 0, "")
RBRACK == Tok("]", 0, "")
LBRACE == Tok("{", 0, "")
RBRACE == Tok("}", 0, "")
NULLTOK == Tok("null", 0, "")
NumTok(v) == Tok("number", v, "")
StrTok(v) == Tok("string", v.str, "")
KeyTok(name) == Tok("key", 0, name)

RECURSIVE Concat(_)
Concat(ss) == IF ss = <<>> THEN <<>> ELSE Head(ss) \o Concat(Tail(ss))

StringifyLeg(leg) ==
    <<LBRACE, KeyTok("to"), StrTok(leg.to), KeyTok("price"), NumTok(leg.price), RBRACE>>

StringifyStay(stay) ==
    <<LBRACE, KeyTok("days"), NumTok(stay.days),
      KeyTok("pricePerNight"), NumTok(stay.pricePerNight), RBRACE>>

\* Variant: the accommodations of the payload are not written.
StringifyResultsNoStays(r) ==
    <<LBRACE, KeyTok("flights"), LBRACK>>
      \o Concat([i \in 1..Len(r.flights) |-> StringifyLeg(r.flights[i])])
      \o <<RBRACK, RBRACE>>

StringifyResults(r) ==
    <<LBRACE, KeyTok("flights"), LBRACK>>
      \o Concat([i \in 1..Len(r.flights) |-> StringifyLeg(r.flights[i])])
      \o <<RBRACK, KeyTok("accommodations"), LBRACK>>
      \o Concat([i \in 1..Len(r.accommodations) |-> StringifyStay(r.accommodations[i])])
      \o <<RBRACK, RBRACE>>

\* An own property that is undefined/missing is not written by JSON.stringify.
StringifyEntry(e) ==
    <<LBRACE, KeyTok("timestamp"), StrTok(e.timestamp),
      KeyTok("totalFlightPrice"), NumTok(e.totalFlightPrice)>>
      \o (IF "results" \in DOMAIN e
            THEN <<KeyTok("results")>> \o StringifyResults(e.results)
            ELSE <<>>)
      \o <<RBRACE>>

\* JSON.stringify(updatedHistory)
JSONstringify(h) ==
    <<LBRACK>> \o Concat([i \in 1..Len(h) |-> StringifyEntry(h[i])]) \o <<RBRACK>>

ParseFail == [ok |-> FALSE, type |-> "none", val |-> 0, rest |-> <<>>]
Parsed(type, val, rest) == [ok |-> TRUE, type |-> type, val |-> val, rest |-> rest]

RECURSIVE ParseValue(_), ParseElements(_, _), ParseMembers(_, _)

ParseValue(s) ==
    IF s = <<>> THEN ParseFail
    ELSE LET tk == Head(s) IN
         CASE tk.k = "number" -> Parsed("number", tk.n, Tail(s))
           [] tk.k = "string" -> Parsed("string", Str(tk.n), Tail(s))
           [] tk.k = "null"   -> Parsed("null", JNull, Tail(s))
           [] tk.k = "["      -> ParseElements(Tail(s), <<>>)
           [] tk.k = "{"      -> ParseMembers(Tail(s), <<>>)
           [] OTHER           -> ParseFail

ParseElements(s, acc) ==
    IF s = <<>> THEN ParseFail
    ELSE IF Head(s).k = "]" THEN Parsed("array", acc, Tail(s))
    ELSE LET r == ParseValue(s) IN
         IF r.ok THEN ParseElements(r.rest, Append(acc, r.val)) ELSE ParseFail

ParseMembers(s, acc) ==
    IF s = <<>> THEN ParseFail
    ELSE IF Head(s).k = "}" THEN Parsed("object", acc, Tail(s))
    ELSE IF Head(s).k # "key" THEN ParseFail
    ELSE LET r == ParseValue(Tail(s)) IN
         IF r.ok THEN ParseMembers(r.rest, (Head(s).s :> r.val) @@ acc) ELSE ParseFail

\* JSON.parse(text): a value, or a SyntaxError (ok = FALSE).
JSONparse(text) ==
    LET r == ParseValue(text) IN
    IF r.ok /\ r.rest = <<>> THEN r ELSE ParseFail

---------------------------------------------------------------------------
(* localStorage, restricted to the key 'searchHistory' *)

NoItem == [has |-> FALSE, text |-> <<>>]
Item(text) == [has |-> TRUE, text |-> text]

\* What may be found under the key when the page is first loaded: nothing,
\* an empty text, a truncated text, and texts that parse but are not a
\* StoredSearch[] (and, below, a StoredSearch[] that is too long).
EmptyText == <<>>
TruncatedText == <<LBRACK, LBRACE, KeyTok("timestamp")>>
NumberText == <<NumTok(5)>>
ObjectText == <<LBRACE, KeyTok("a"), NumTok(1), RBRACE>>
NullText == <<NULLTOK>>
NoResultsListText ==
    <<LBRACK, LBRACE, KeyTok("timestamp"), StrTok(Str(0)),
      KeyTok("totalFlightPrice"), NumTok(1), RBRACE, RBRACK>>

InitialStorage ==
    {NoItem} \cup {Item(x) : x \in {EmptyText, TruncatedText, NumberText,
                                    ObjectText, NullText, NoResultsListText}}

\* A list of well-formed observations that is longer than the window, as a
\* build with a larger window (or any other writer of the key) leaves it.
OversizeLen == HistoryCap + 1
OversizeHistory ==
    [i \in 1..OversizeLen |->
        [timestamp |-> Str(0),
         totalFlightPrice |-> 1,
         results |-> [flights |-> <<[to |-> Str(1), price |-> 1]>>,
                      accommodations |-> <<>>]]]
OversizeListText == JSONstringify(OversizeHistory)

StoredAtStart == InitialStorage \cup {Item(OversizeListText)}

---------------------------------------------------------------------------
(* Trip results the model service may return (TripResults) *)

Leg(to, price) == [to |-> Str(to), price |-> price]
Stay(days, ppn) == [days |-> days, pricePerNight |-> ppn]

TripData ==
    { [flights |-> <<>>, accommodations |-> <<>>],
      [flights |-> <<Leg(1, 1)>>, accommodations |-> <<Stay(2, 1)>>],
      [flights |-> <<Leg(1, 1), Leg(2, 2)>>, accommodations |-> <<>>] }

\* Variant: only the first leg is counted.
SumPricesFirstLeg(flights) ==
    IF flights = <<>> THEN 0 ELSE Head(flights).price

RECURSIVE SumPrices(_)
\* flights.reduce((sum, leg) => sum + leg.price, 0)
SumPrices(flights) ==
    IF flights = <<>> THEN 0 ELSE Head(flights).price + SumPrices(Tail(flights))

---------------------------------------------------------------------------
(* The price narrative chosen by the two summary builders *)

\* getEmailSummary: priceAnalysisPrompt
EmailPriceAnalysis(data, prev) ==
    IF Truthy(prev)
      THEN LET difference == SumPrices(data.flights) - prev.n IN
           IF difference > 0 THEN "rose"
           ELSE IF difference < 0 THEN "fell"
           ELSE "stable"
      ELSE "first"

\* getWhatsAppSummary: priceAnalysisPrompt
WhatsAppPriceAnalysis(data, prev) ==
    IF Truthy(prev)
      THEN LET difference == SumPrices(data.flights) - prev.n IN
           IF difference > 0 THEN "rose"
           ELSE IF difference < 0 THEN "fell"
           ELSE "stable"
      ELSE "first"

\* getWhatsAppSummary builds its prompt from
\* results.flights[results.flights.length - 1].to, a TypeError when there
\* is no leg; the async function then returns a rejected promise.
WhatsAppPromptThrows(data) == Len(data.flights) = 0

NoSummary == [kind |-> "null", narrative |-> "none"]
ModelText(narrative) == [kind |-> "text", narrative |-> narrative]
Fallback == [kind |-> "fallback", narrative |-> "none"]

---------------------------------------------------------------------------
(* The ledger *)

\* xs.slice(-n)
SliceLast(xs, n) ==
    IF Len(xs) <= n THEN xs ELSE SubSeq(xs, Len(xs) - n + 1, Len(xs))

\* Variant: the window is cut from the front, slice(0, 7).
UpdatedHistoryKeepFirst(prevHistory, newHistoryEntry) ==
    LET all == Append(prevHistory, newHistoryEntry) IN
    IF Len(all) <= HistoryCap THEN all ELSE SubSeq(all, 1, HistoryCap)

\* Variant: an observation whose price equals the latest one is not recorded.
UpdatedHistoryDedup(prevHistory, newHistoryEntry) ==
    IF /\ Len(prevHistory) > 0
       /\ prevHistory[Len(prevHistory)].totalFlightPrice = newHistoryEntry.totalFlightPrice
      THEN prevHistory
      ELSE SliceLast(Append(prevHistory, newHistoryEntry), HistoryCap)

\* Variant: the new entry is put in front, [newHistoryEntry, ...prevHistory].
UpdatedHistoryPrepend(prevHistory, newHistoryEntry) ==
    SliceLast(<<newHistoryEntry>> \o prevHistory, HistoryCap)

\* The state updater of handleSearch: [...prevHistory, newHistoryEntry].slice(-7)
UpdatedHistory(prevHistory, newHistoryEntry) ==
    SliceLast(Append(prevHistory, newHistoryEntry), HistoryCap)

\* Variant: only the new entry is written.
PersistedTextNewOnly(updatedHistory) ==
    JSONstringify(<<updatedHistory[Len(updatedHistory)]>>)

\* What the updater hands to localStorage.setItem.
PersistedText(updatedHistory) == JSONstringify(updatedHistory)

\* const previousPrice = searchHistory.length > 0 ? ... : null
PreviousPrice(history) ==
    IF Len(history) > 0 THEN JNum(history[Len(history)].totalFlightPrice) ELSE JNull

\* Variant: the previous price is tested for truthiness instead of null.
PriceHistoryForChartTruthy(history) ==
    [index \in 1..Len(history) |->
        LET prev == IF index > 1 THEN JNum(history[index - 1].totalFlightPrice) ELSE JNull
            change == IF Truthy(prev)
                        THEN JNum(history[index].totalFlightPrice - prev.n)
                        ELSE JNull
        IN [date |-> history[index].timestamp,
            price |-> history[index].totalFlightPrice,
            change |-> change]]

\* priceHistoryForChart
PriceHistoryForChart(history) ==
    [index \in 1..Len(history) |->
        LET prev == IF index > 1 THEN JNum(history[index - 1].totalFlightPrice) ELSE JNull
            change == IF prev # JNull
                        THEN JNum(history[index].totalFlightPrice - prev.n)
                        ELSE JNull
        IN [date |-> history[index].timestamp,
            price |-> history[index].totalFlightPrice,
            change |-> change]]

\* PriceChart.renderChange: what the variation column shows.
RenderChange(change) ==
    IF change = JNull THEN "dash"
    ELSE IF change.n = 0 THEN "zero"
    ELSE IF change.n > 0 THEN "increase" ELSE "decrease"

---------------------------------------------------------------------------
(* State *)

VARIABLES
    pc,                \* "boot" | "idle" | "trip" | "summaries" | "crashed"
    isLoading, error, results, emailSummary, whatsappSummary,
    searchHistory,     \* the items of the searchHistory state when it is an array
    searchHistoryType, \* "array", or the type of the non-array value it holds
    localStorage,      \* the item 'searchHistory'
    now,               \* the wall clock
    closureHistory,    \* searchHistory as captured by the running handleSearch
    startStorage,      \* localStorage when the running handleSearch started
    previousPrice, newHistoryEntry,  \* locals of the running handleSearch
    emailAnalysis, whatsappAnalysis, whatsappThrew, \* the pending summary calls
    tripOk, appended,  \* how many trip-data calls resolved / entries were appended
    endedWith,         \* what the previous session held when the page was
                       \* reloaded (forgotten when the next search starts)
    departureDate, returnDate, adults, children, isPassengerPopoverOpen,
    lastExport,        \* what the last click on the export button produced
    inFlight           \* how many runs of handleSearch have not ended

vars == <<pc, isLoading, error, results, emailSummary, whatsappSummary,
          searchHistory, searchHistoryType, localStorage, now,
          closureHistory, startStorage, previousPrice, newHistoryEntry,
          emailAnalysis, whatsappAnalysis, whatsappThrew,
          tripOk, appended, endedWith,
          departureDate, returnDate, adults, children, isPassengerPopoverOpen,
          lastExport, inFlight>>

NoError == "null"
NoEntry == [t |-> "none"]
Unknown == [known |-> FALSE, type |-> "array", items |-> <<>>]

\* getInitialDate() and getInitialReturnDate(initialDeparture), and another
\* day the date inputs accept.
InitialDepartureDate == "today+2months"
InitialReturnDate == "today+2months+14days"
DateChoices == {InitialDepartureDate, InitialReturnDate, "another day"}
InitialAdults == 2
InitialChildren == 1
NoExport == [kind |-> "none", rows |-> 0]

\* The useState initial values of App, and no handler running.
Mounted ==
    /\ pc = "boot"
    /\ isLoading = FALSE
    /\ error = NoError
    /\ results = JNull
    /\ emailSummary = NoSummary
    /\ whatsappSummary = NoSummary
    /\ searchHistory = <<>>
    /\ searchHistoryType = "array"
    /\ closureHistory = <<>>
    /\ startStorage = NoItem
    /\ previousPrice = JNull
    /\ newHistoryEntry = NoEntry
    /\ emailAnalysis = "none"
    /\ whatsappAnalysis = "none"
    /\ whatsappThrew = FALSE
    /\ departureDate = InitialDepartureDate
    /\ returnDate = InitialReturnDate
    /\ adults = InitialAdults
    /\ children = InitialChildren
    /\ isPassengerPopoverOpen = FALSE
    /\ lastExport = NoExport
    /\ inFlight = 0

Init ==
    /\ Mounted
    /\ localStorage \in StoredAtStart
    /\ now = 0
    /\ tripOk = 0
    /\ appended = 0
    /\ endedWith = Unknown

uiVars == <<isLoading, error, results, emailSummary, whatsappSummary>>
handlerVars == <<closureHistory, startStorage, previousPrice, newHistoryEntry,
                 emailAnalysis, whatsappAnalysis, whatsappThrew>>
ghostVars == <<tripOk, appended>>
formVars == <<departureDate, returnDate, adults, children, isPassengerPopoverOpen,
              lastExport>>

\* The component is mounted and rendered: its buttons and inputs exist.
Rendered == pc \in {"idle", "trip", "summaries"}

\* The mount effect: rehydrate searchHistory from localStorage.
LoadHistory ==
    /\ pc = "boot"
    /\ IF localStorage.has /\ localStorage.text # <<>>
         THEN LET r == JSONparse(localStorage.text) IN
              IF r.ok
                THEN /\ searchHistoryType' = r.type
                     /\ searchHistory' = IF r.type = "array" THEN r.val ELSE <<>>
                     \* rendering a non-array calls searchHistory.map: TypeError
                     /\ pc' = IF r.type = "array" THEN "idle" ELSE "crashed"
                     /\ UNCHANGED localStorage
                ELSE /\ localStorage' = NoItem
                     /\ pc' = "idle"
                     /\ UNCHANGED <<searchHistory, searchHistoryType>>
         ELSE /\ pc' = "idle"
              /\ UNCHANGED <<searchHistory, searchHistoryType, localStorage>>
    /\ UNCHANGED <<uiVars, handlerVars, ghostVars, now, endedWith, formVars, inFlight>>

\* Variant: the search button is not disabled while a search is loading.
StartSearchWhileLoading(limit) ==
    /\ Rendered
    /\ tripOk < limit
    /\ isLoading' = TRUE
    /\ error' = NoError
    /\ results' = JNull
    /\ emailSummary' = NoSummary
    /\ whatsappSummary' = NoSummary
    /\ closureHistory' = searchHistory
    /\ startStorage' = localStorage
    /\ pc' = "trip"
    /\ endedWith' = Unknown
    /\ inFlight' = inFlight + 1
    /\ UNCHANGED <<searchHistory, searchHistoryType, localStorage, now,
                   previousPrice, newHistoryEntry, emailAnalysis,
                   whatsappAnalysis, whatsappThrew, ghostVars, formVars>>

\* Click on the search button (disabled while isLoading): handleSearch runs
\* up to its first await.  No search is started once limit trip-data calls
\* have resolved.
StartSearchWithin(limit) ==
    /\ Rendered
    /\ ~isLoading
    /\ tripOk < limit
    /\ isLoading' = TRUE
    /\ error' = NoError
    /\ results' = JNull
    /\ emailSummary' = NoSummary
    /\ whatsappSummary' = NoSummary
    /\ closureHistory' = searchHistory
    /\ startStorage' = localStorage
    /\ pc' = "trip"
    /\ endedWith' = Unknown
    /\ inFlight' = inFlight + 1
    /\ UNCHANGED <<searchHistory, searchHistoryType, localStorage, now,
                   previousPrice, newHistoryEntry, emailAnalysis,
                   whatsappAnalysis, whatsappThrew, ghostVars, formVars>>

StartSearch == StartSearchWithin(MaxSearches)

\* getTripData throws (network failure or unparseable answer): catch, finally.
TripRejected ==
    /\ pc = "trip"
    /\ error' = "errorDefault"
    /\ isLoading' = FALSE
    /\ pc' = "idle"
    /\ closureHistory' = <<>>
    /\ startStorage' = NoItem
    /\ inFlight' = inFlight - 1
    /\ UNCHANGED <<results, emailSummary, whatsappSummary, searchHistory,
                   searchHistoryType, localStorage, now, previousPrice,
                   newHistoryEntry, emailAnalysis, whatsappAnalysis,
                   whatsappThrew, ghostVars, endedWith, formVars>>

\* How many entries of after were not in before.
NewEntries(before, after) ==
    Cardinality({i \in 1..Len(after) : \A j \in 1..Len(before) : after[i] # before[j]})

\* Variant: the baseline is read from the history after the append.
TripResolvedReadsAfterAppend(data) ==
    /\ pc = "trip"
    /\ now' = now + 1
    /\ results' = data
    /\ newHistoryEntry' = [timestamp |-> toISOString(now'),
                           totalFlightPrice |-> SumPrices(data.flights),
                           results |-> data]
    /\ searchHistory' = UpdatedHistory(searchHistory, newHistoryEntry')
    /\ localStorage' = Item(PersistedText(searchHistory'))
    /\ previousPrice' = PreviousPrice(searchHistory')
    /\ emailAnalysis' = EmailPriceAnalysis(data, previousPrice')
    /\ whatsappAnalysis' = WhatsAppPriceAnalysis(data, previousPrice')
    /\ whatsappThrew' = WhatsAppPromptThrows(data)
    /\ tripOk' = tripOk + 1
    /\ appended' = appended + NewEntries(searchHistory, searchHistory')
    /\ pc' = "summaries"
    /\ UNCHANGED <<isLoading, error, emailSummary, whatsappSummary,
                   searchHistoryType, closureHistory, startStorage, endedWith,
                   formVars, inFlight>>

\* getTripData resolves with data: handleSearch runs from setResults up to
\* await Promise.all(summaryPromises).
TripResolved(data) ==
    /\ pc = "trip"
    /\ now' = now + 1
    /\ results' = data
    /\ previousPrice' = PreviousPrice(closureHistory)
    /\ emailAnalysis' = EmailPriceAnalysis(data, previousPrice')
    /\ whatsappAnalysis' = WhatsAppPriceAnalysis(data, previousPrice')
    /\ whatsappThrew' = WhatsAppPromptThrows(data)
    /\ newHistoryEntry' = [timestamp |-> toISOString(now'),
                           totalFlightPrice |-> SumPrices(data.flights),
                           results |-> data]
    /\ searchHistory' = UpdatedHistory(searchHistory, newHistoryEntry')
    /\ localStorage' = Item(PersistedText(searchHistory'))
    /\ tripOk' = tripOk + 1
    /\ appended' = appended + NewEntries(searchHistory, searchHistory')
    /\ pc' = "summaries"
    /\ UNCHANGED <<isLoading, error, emailSummary, whatsappSummary,
                   searchHistoryType, closureHistory, startStorage, endedWith,
                   formVars, inFlight>>

\* Variant: the run ends without the finally block, isLoading stays set.
HandlerDoneStillLoading ==
    /\ isLoading' = isLoading
    /\ pc' = "idle"
    /\ closureHistory' = <<>>
    /\ startStorage' = NoItem
    /\ previousPrice' = JNull
    /\ newHistoryEntry' = NoEntry
    /\ emailAnalysis' = "none"
    /\ whatsappAnalysis' = "none"
    /\ whatsappThrew' = FALSE
    /\ inFlight' = inFlight - 1

\* The end of a run of handleSearch after the summaries: finally, and the
\* locals are gone.
HandlerDone ==
    /\ isLoading' = FALSE
    /\ pc' = "idle"
    /\ closureHistory' = <<>>
    /\ startStorage' = NoItem
    /\ previousPrice' = JNull
    /\ newHistoryEntry' = NoEntry
    /\ emailAnalysis' = "none"
    /\ whatsappAnalysis' = "none"
    /\ whatsappThrew' = FALSE
    /\ inFlight' = inFlight - 1

\* Promise.all resolves: each summary call either answered with the model's
\* text or caught its failure and returned the fallback sentence.
SummariesResolved(emailOk, whatsappOk) ==
    /\ pc = "summaries"
    /\ ~whatsappThrew
    /\ emailSummary' = IF emailOk THEN ModelText(emailAnalysis) ELSE Fallback
    /\ whatsappSummary' = IF whatsappOk THEN ModelText(whatsappAnalysis) ELSE Fallback
    /\ HandlerDone
    /\ UNCHANGED <<error, results, searchHistory, searchHistoryType,
                   localStorage, now, ghostVars, endedWith, formVars>>

\* Promise.all rejects with the TypeError of getWhatsAppSummary: catch, finally.
SummariesRejected ==
    /\ pc = "summaries"
    /\ whatsappThrew
    /\ error' = "TypeError"
    /\ HandlerDone
    /\ UNCHANGED <<results, emailSummary, whatsappSummary, searchHistory,
                   searchHistoryType, localStorage, now, ghostVars, endedWith,
                   formVars>>

\* The page is reloaded: the component state is gone, localStorage stays.
Reload ==
    /\ pc # "boot"
    /\ pc' = "boot"
    /\ isLoading' = FALSE
    /\ error' = NoError
    /\ results' = JNull
    /\ emailSummary' = NoSummary
    /\ whatsappSummary' = NoSummary
    /\ searchHistory' = <<>>
    /\ searchHistoryType' = "array"
    /\ closureHistory' = <<>>
    /\ startStorage' = NoItem
    /\ previousPrice' = JNull
    /\ newHistoryEntry' = NoEntry
    /\ emailAnalysis' = "none"
    /\ whatsappAnalysis' = "none"
    /\ whatsappThrew' = FALSE
    /\ endedWith' = [known |-> TRUE, type |-> searchHistoryType, items |-> searchHistory]
    /\ departureDate' = InitialDepartureDate
    /\ returnDate' = InitialReturnDate
    /\ adults' = InitialAdults
    /\ children' = InitialChildren
    /\ isPassengerPopoverOpen' = FALSE
    /\ lastExport' = NoExport
    /\ inFlight' = 0
    /\ UNCHANGED <<localStorage, now, ghostVars>>

Next ==
    \/ LoadHistory
    \/ StartSearch
    \/ TripRejected
    \/ \E data \in TripData : TripResolved(data)
    \/ \E emailOk \in BOOLEAN, whatsappOk \in BOOLEAN : SummariesResolved(emailOk, whatsappOk)
    \/ SummariesRejected
    \/ Reload

Spec == Init /\ [][Next]_vars

---------------------------------------------------------------------------
(* The form and the export *)

ledgerVars == <<pc, uiVars, handlerVars, ghostVars, searchHistory,
                searchHistoryType, localStorage, now, endedWith, inFlight>>

Max(a, b) == IF a >= b THEN a ELSE b

\* onChange of the departure date input
SetDepartureDate(value) ==
    /\ Rendered
    /\ departureDate' = value
    /\ UNCHANGED <<ledgerVars, returnDate, adults, children,
                   isPassengerPopoverOpen, lastExport>>

\* onChange of the return date input
SetReturnDate(value) ==
    /\ Rendered
    /\ returnDate' = value
    /\ UNCHANGED <<ledgerVars, departureDate, adults, children,
                   isPassengerPopoverOpen, lastExport>>

\* Click on the passenger selector button
TogglePassengerPopover ==
    /\ Rendered
    /\ isPassengerPopoverOpen' = ~isPassengerPopoverOpen
    /\ UNCHANGED <<ledgerVars, departureDate, returnDate, adults, children,
                   lastExport>>

\* mousedown outside the passenger selector
handleClickOutside ==
    /\ Rendered
    /\ isPassengerPopoverOpen' = FALSE
    /\ UNCHANGED <<ledgerVars, departureDate, returnDate, adults, children,
                   lastExport>>

\* The - and + buttons of the adults row (rendered in the open popover)
DecrementAdults ==
    /\ Rendered
    /\ isPassengerPopoverOpen
    /\ adults' = Max(1, adults - 1)
    /\ UNCHANGED <<ledgerVars, departureDate, returnDate, children,
                   isPassengerPopoverOpen, lastExport>>

IncrementAdults ==
    /\ Rendered
    /\ isPassengerPopoverOpen
    /\ adults < MaxPassengers
    /\ adults' = adults + 1
    /\ UNCHANGED <<ledgerVars, departureDate, returnDate, children,
                   isPassengerPopoverOpen, lastExport>>

\* The - and + buttons of the children row
DecrementChildren ==
    /\ Rendered
    /\ isPassengerPopoverOpen
    /\ children' = Max(0, children - 1)
    /\ UNCHANGED <<ledgerVars, departureDate, returnDate, adults,
                   isPassengerPopoverOpen, lastExport>>

IncrementChildren ==
    /\ Rendered
    /\ isPassengerPopoverOpen
    /\ children < MaxPassengers
    /\ children' = children + 1
    /\ UNCHANGED <<ledgerVars, departureDate, returnDate, adults,
                   isPassengerPopoverOpen, lastExport>>

RECURSIVE CountLegs(_)
\* The rows handleExportToCSV pushes after the header: one per flight leg
\* of every stored search.
CountLegs(history) ==
    IF history = <<>> THEN 0
    ELSE Len(Head(history).results.flights) + CountLegs(Tail(history))

Reverse(xs) == [i \in 1..Len(xs) |-> xs[Len(xs) + 1 - i]]

\* Variant: the export puts the newest search first by reversing the
\* history array in place.
handleExportToCSVReversing ==
    /\ Rendered
    /\ Len(searchHistory) > 0
    /\ searchHistory' = Reverse(searchHistory)
    /\ lastExport' =
          IF \A i \in 1..Len(searchHistory) : "results" \in DOMAIN searchHistory[i]
            THEN [kind |-> "download", rows |-> 1 + CountLegs(searchHistory)]
            ELSE [kind |-> "TypeError", rows |-> 0]
    /\ UNCHANGED <<pc, uiVars, handlerVars, ghostVars, searchHistoryType,
                   localStorage, now, endedWith, inFlight,
                   departureDate, returnDate, adults, children,
                   isPassengerPopoverOpen>>

\* Click on the export button of PriceChart, which is rendered only for a
\* non-empty history: handleExportToCSV.  Reading search.results.flights of
\* an entry without results is a TypeError and nothing is downloaded.
handleExportToCSV ==
    /\ Rendered
    /\ Len(searchHistory) > 0
    /\ lastExport' =
          IF \A i \in 1..Len(searchHistory) : "results" \in DOMAIN searchHistory[i]
            THEN [kind |-> "download", rows |-> 1 + CountLegs(searchHistory)]
            ELSE [kind |-> "TypeError", rows |-> 0]
    /\ UNCHANGED <<ledgerVars, departureDate, returnDate, adults, children,
                   isPassengerPopoverOpen>>

StartFormSearch == StartSearchWithin(MaxFormSearches)

AppNext ==
    \/ LoadHistory
    \/ StartFormSearch
    \/ TripRejected
    \/ \E data \in TripData : TripResolved(data)
    \/ \E emailOk \in BOOLEAN, whatsappOk \in BOOLEAN : SummariesResolved(emailOk, whatsappOk)
    \/ SummariesRejected
    \/ Reload
    \/ \E value \in DateChoices : SetDepartureDate(value)
    \/ \E value \in DateChoices : SetReturnDate(value)
    \/ TogglePassengerPopover
    \/ handleClickOutside
    \/ DecrementAdults
    \/ IncrementAdults
    \/ DecrementChildren
    \/ IncrementChildren
    \/ handleExportToCSV

\* The whole component, with fewer searches.
AppSpec == Init /\ [][AppNext]_vars

\* One page session (no reload), in which every call to the model service
\* that is awaited eventually resolves or rejects.  The two date inputs are
\* left at their initial values here: handleSearch reads them only when it
\* is called, and AppSpec covers their setters.
SessionNext ==
    \/ LoadHistory
    \/ StartFormSearch
    \/ TripRejected
    \/ \E data \in TripData : TripResolved(data)
    \/ \E emailOk \in BOOLEAN, whatsappOk \in BOOLEAN : SummariesResolved(emailOk, whatsappOk)
    \/ SummariesRejected
    \/ TogglePassengerPopover
    \/ handleClickOutside
    \/ DecrementAdults
    \/ IncrementAdults
    \/ DecrementChildren
    \/ IncrementChildren
    \/ handleExportToCSV

SessionLiveSpec ==
    /\ Init
    /\ [][SessionNext]_vars
    /\ WF_vars(TripRejected \/ \E data \in TripData : TripResolved(data))
    /\ WF_vars(SummariesRejected
                 \/ \E emailOk \in BOOLEAN, whatsappOk \in BOOLEAN :
                       SummariesResolved(emailOk, whatsappOk))

---------------------------------------------------------------------------
(* Steps *)

\* The step of handleSearch that appends: from the resolved trip-data call
\* to the await of the summaries.
AppendStep == pc = "trip" /\ pc' = "summaries"

\* A run of handleSearch ends.
HandlerEnds == pc \in {"trip", "summaries"} /\ pc' = "idle"

\* The mount effect ran.
LoadStep == pc = "boot" /\ pc' # "boot"

Last(xs) == xs[Len(xs)]

---------------------------------------------------------------------------
(* C1 *)

\* C1: every append yields exactly the last 7 elements of the previous
\* history followed by the new entry: at most 7 entries, the new entry
\* last, the retained entries unchanged and in order, and from a full
\* history exactly the single oldest entry is removed.
C1_AppendKeepsLastSeven ==
    [][AppendStep =>
        /\ Len(searchHistory') <= 7
        /\ Last(searchHistory') = newHistoryEntry'
        /\ Len(searchHistory) < 7 => searchHistory' = Append(searchHistory, newHistoryEntry')
        /\ Len(searchHistory) = 7 =>
              searchHistory' = Append(Tail(searchHistory), newHistoryEntry')]_vars

\* An eighth append to a history grown from empty has evicted the oldest entry.
C1_Witness ==
    /\ pc = "summaries"
    /\ appended = 8
    /\ Len(closureHistory) = 7
    /\ Len(searchHistory) = 7
    /\ searchHistory[7] = newHistoryEntry
    /\ searchHistory[1] = closureHistory[2]
    /\ closureHistory[1].timestamp = Str(1)

---------------------------------------------------------------------------
(* C2 *)

\* C2: a run of handleSearch that ends with a user-visible error leaves the
\* history and the persisted item as they were when the run started.
C2_ErrorLeavesLedgerUntouched ==
    [][(HandlerEnds /\ error' # NoError) =>
        /\ searchHistory' = closureHistory
        /\ localStorage' = startStorage]_vars

---------------------------------------------------------------------------
(* C3 *)

\* The text is a serialized sequence of well-formed observations.
IsStoredSearchList(text) ==
    LET r == JSONparse(text) IN
    /\ r.ok
    /\ r.type = "array"
    /\ \A i \in 1..Len(r.val) :
          DOMAIN r.val[i] = {"timestamp", "totalFlightPrice", "results"}

\* C3: at startup a persisted (non-empty) item that is not parseable, or parses to
\* something that is not a sequence of well-formed observations, leaves the
\* in-memory history empty, is discarded, and causes no crash and no error.
C3_CorruptBlobDiscarded ==
    [][(LoadStep /\ localStorage.has /\ localStorage.text # EmptyText
           /\ ~IsStoredSearchList(localStorage.text)) =>
        /\ searchHistoryType' = "array"
        /\ searchHistory' = <<>>
        /\ localStorage' = NoItem
        /\ pc' # "crashed"
        /\ error' = NoError]_vars

---------------------------------------------------------------------------
(* C4 *)

\* C4: the chart series has one point per stored search, oldest first, with
\* date and price copied; the change of the first point is absent and every
\* later change is the difference to the previous price, so that an
\* unchanged price gives the number 0, shown differently from absent.
C4_ChartSeries ==
    searchHistoryType = "array" =>
        LET series == PriceHistoryForChart(searchHistory) IN
        /\ Len(series) = Len(searchHistory)
        /\ \A i \in 1..Len(searchHistory) :
              /\ series[i].date = searchHistory[i].timestamp
              /\ series[i].price = searchHistory[i].totalFlightPrice
              /\ i = 1 => /\ series[i].change.t = "null"
                          /\ RenderChange(series[i].change) = "dash"
              /\ i > 1 =>
                   /\ series[i].change.t = "number"
                   /\ series[i].change.n =
                        searchHistory[i].totalFlightPrice - searchHistory[i - 1].totalFlightPrice
                   /\ RenderChange(series[i].change) # "dash"

\* A history with an unchanged price, a rise and a fall, after a zero price.
C4_Witness ==
    /\ searchHistoryType = "array"
    /\ Len(searchHistory) >= 5
    /\ \E i \in 2..Len(searchHistory) :
          /\ searchHistory[i].totalFlightPrice = searchHistory[i - 1].totalFlightPrice
          /\ RenderChange(PriceHistoryForChart(searchHistory)[i].change) = "zero"
    /\ \E i \in 2..Len(searchHistory) :
          /\ searchHistory[i - 1].totalFlightPrice = 0
          /\ searchHistory[i].totalFlightPrice > 0
    /\ \E i \in 2..Len(searchHistory) :
          searchHistory[i].totalFlightPrice < searchHistory[i - 1].totalFlightPrice

---------------------------------------------------------------------------
(* C5 *)

Narrative(difference) ==
    IF difference > 0 THEN "rose" ELSE IF difference < 0 THEN "fell" ELSE "stable"

\* C5: the baseline of a search is absent exactly when the history is empty
\* when the search runs; with a non-empty history (latest price 0 included)
\* it is the latest totalFlightPrice and both summaries use the rose / fell /
\* stable narrative of (new total - baseline), never the first-search text.
C5_BaselineNarrative ==
    pc = "summaries" =>
        /\ (previousPrice = JNull) <=> (closureHistory = <<>>)
        /\ closureHistory # <<>> =>
              /\ previousPrice = JNum(Last(closureHistory).totalFlightPrice)
              /\ emailAnalysis =
                    Narrative(SumPrices(results.flights) - Last(closureHistory).totalFlightPrice)
              /\ whatsappAnalysis =
                    Narrative(SumPrices(results.flights) - Last(closureHistory).totalFlightPrice)

---------------------------------------------------------------------------
(* C6 *)

\* C6: the baseline handed to the summaries is read from the history as it
\* is before the search's own append: the totalFlightPrice of the entry that
\* is last at that moment (appended by the preceding search, or rehydrated),
\* absent if there is none.
C6_BaselineIsPreAppend ==
    [][AppendStep =>
        previousPrice' = IF searchHistory = <<>>
                           THEN JNull
                           ELSE JNum(Last(searchHistory).totalFlightPrice)]_vars

\* A search whose baseline differs from the price it appends itself.
C6_Witness ==
    /\ pc = "summaries"
    /\ Len(searchHistory) >= 3
    /\ previousPrice = JNum(searchHistory[Len(searchHistory) - 1].totalFlightPrice)
    /\ previousPrice.n # newHistoryEntry.totalFlightPrice
    /\ Last(searchHistory) = newHistoryEntry

---------------------------------------------------------------------------
(* C7 *)

\* C7: every resolved trip-data call appends exactly one entry, in the step
\* that follows the resolution and in no other; the number of entries ever
\* appended equals the number of resolved trip-data calls, whatever the
\* summary calls do afterwards.
C7_OneAppendPerResolvedTrip ==
    /\ [](appended = tripOk)
    /\ [][(tripOk' # tripOk \/ appended' # appended) =>
            /\ pc = "trip"
            /\ tripOk' = tripOk + 1
            /\ appended' = appended + 1
            /\ Last(searchHistory') = newHistoryEntry']_vars
    /\ [][(pc = "summaries" /\ pc' = "idle") => searchHistory' = searchHistory]_vars

\* Three searches were appended although the last one's summaries both failed.
C7_Witness ==
    /\ pc = "idle"
    /\ tripOk = 3
    /\ appended = 3
    /\ Len(searchHistory) = 3
    /\ emailSummary = Fallback
    /\ whatsappSummary = Fallback

---------------------------------------------------------------------------
(* C8 *)

\* C8: after every append the persisted item is the serialization of the
\* whole post-append history, so that what is stored decodes to the
\* in-memory history after each completed search.
C8_PersistedIsFullHistory ==
    /\ [][AppendStep =>
            /\ localStorage'.has
            /\ localStorage'.text = JSONstringify(searchHistory')
            /\ JSONparse(localStorage'.text).val = searchHistory']_vars
    /\ []((pc = "idle" /\ appended > 0 /\ searchHistory # <<>>) =>
            /\ localStorage.has
            /\ JSONparse(localStorage.text).val = searchHistory)

\* A full window has been persisted.
C8_Witness ==
    /\ pc = "idle"
    /\ appended = 8
    /\ Len(searchHistory) = 7
    /\ localStorage.has
    /\ Len(JSONparse(localStorage.text).val) = 7
    /\ JSONparse(localStorage.text).val = searchHistory

---------------------------------------------------------------------------
(* C9 *)

\* C9: serializing the history and parsing the text again gives an equal
\* sequence, field for field, for every history (empty and full included);
\* a reloaded session rehydrates what the previous session ended with.
C9_RoundTrip ==
    /\ searchHistoryType = "array" =>
          LET r == JSONparse(JSONstringify(searchHistory)) IN
          /\ r.ok
          /\ r.type = "array"
          /\ r.val = searchHistory
    /\ (pc \in {"idle", "crashed"} /\ endedWith.known) =>
          /\ searchHistoryType = endedWith.type
          /\ searchHistory = endedWith.items

\* A session rehydrated a full window whose payloads have legs and stays.
C9_Witness ==
    /\ pc = "idle"
    /\ endedWith.known
    /\ Len(searchHistory) = 7
    /\ searchHistory = endedWith.items
    /\ \A i \in 1..7 : "results" \in DOMAIN searchHistory[i]
    /\ \E i \in 1..7 : Len(searchHistory[i].results.accommodations) > 0
    /\ \E i \in 1..7 : Len(searchHistory[i].results.flights) = 2
    /\ \E i \in 1..7 : Len(searchHistory[i].results.flights) = 0

---------------------------------------------------------------------------
(* C10 *)

\* C10: the entries are in non-decreasing timestamp order; an append puts
\* an entry that is not earlier than any entry present, and the entries
\* that stay are neither reordered nor modified.
C10_TimestampOrder ==
    /\ [](\A i \in 1..Len(searchHistory) : \A j \in i..Len(searchHistory) :
            searchHistory[i].timestamp.str <= searchHistory[j].timestamp.str)
    /\ [][(pc # "boot" /\ pc' # "boot") =>
            \/ searchHistory' = searchHistory
            \/ /\ AppendStep
               /\ \A i \in 1..Len(searchHistory) :
                     searchHistory[i].timestamp.str <= Last(searchHistory').timestamp.str
               /\ \E k \in 0..Len(searchHistory) :
                     SubSeq(searchHistory', 1, Len(searchHistory') - 1)
                        = SubSeq(searchHistory, 1 + k, Len(searchHistory))]_vars

\* A full window that starts with a rehydrated entry and ends with the sixth append.
C10_Witness ==
    /\ Len(searchHistory) = 7
    /\ searchHistory[1].timestamp = Str(0)
    /\ searchHistory[7].timestamp = Str(6)
    /\ appended = 6

---------------------------------------------------------------------------
(* C11 *)

---------------------------------------------------------------------------
(* C12 *)

\* C12: after the rehydration, within a page session, only the append step
\* of a search changes the history or the persisted item; editing the
\* dates or the passenger counts, exporting, starting a search and the
\* other steps of a search leave both as they are.
C12_OnlyAppendChangesLedger ==
    [][(pc # "boot" /\ pc' # "boot" /\ ~AppendStep) =>
        /\ searchHistory' = searchHistory
        /\ searchHistoryType' = searchHistoryType
        /\ localStorage' = localStorage]_vars

\* The form was edited and the history exported while a search is awaited,
\* and the ledger is what the previous search left.
C12_Witness ==
    /\ pc = "trip"
    /\ lastExport.kind = "download"
    /\ adults # InitialAdults
    /\ children # InitialChildren
    /\ departureDate # InitialDepartureDate
    /\ returnDate # InitialReturnDate
    /\ Len(searchHistory) = 1
    /\ appended = 1
    /\ localStorage = Item(JSONstringify(searchHistory))

---------------------------------------------------------------------------
(* C13 *)

\* C13: at most one run of handleSearch is in flight: a run starts only
\* while isLoading is false, isLoading is true exactly while a run is in
\* flight, and between the start of a run and its own append no other
\* append changes the history its baseline is read from.
C13_OneSearchInFlight ==
    /\ [](inFlight <= 1)
    /\ [](isLoading <=> inFlight = 1)
    /\ [](pc = "trip" => searchHistory = closureHistory)
    /\ [][inFlight' > inFlight => (~isLoading /\ inFlight = 0)]_vars

\* The second search of a session is in flight, after its append.
C13_Witness ==
    /\ pc = "summaries"
    /\ isLoading
    /\ inFlight = 1
    /\ tripOk = 2
    /\ Len(searchHistory) = 2

---------------------------------------------------------------------------
(* C14 *)

RECURSIVE PriceOfFirstLegs(_, _)
PriceOfFirstLegs(flights, n) ==
    IF n = 0 THEN 0 ELSE PriceOfFirstLegs(flights, n - 1) + flights[n].price

\* C14: the totalFlightPrice of every entry equals the sum of the prices
\* of the legs of its own payload (0 without legs); the payload of an
\* appended entry is the trip result the search returned; and an entry
\* stays as it is for as long as it is in the history.
C14_PriceIsSumOfLegs ==
    /\ [](\A i \in 1..Len(searchHistory) :
            "results" \in DOMAIN searchHistory[i] =>
               searchHistory[i].totalFlightPrice =
                  PriceOfFirstLegs(searchHistory[i].results.flights,
                                   Len(searchHistory[i].results.flights)))
    /\ [][AppendStep =>
            /\ results' \in TripData
            /\ Last(searchHistory').results = results'
            /\ Last(searchHistory').totalFlightPrice =
                  PriceOfFirstLegs(results'.flights, Len(results'.flights))]_vars
    /\ [][(pc # "boot" /\ pc' # "boot") =>
            \A i \in 1..Len(searchHistory') :
               \/ \E j \in 1..Len(searchHistory) : searchHistory[j] = searchHistory'[i]
               \/ AppendStep /\ i = Len(searchHistory')]_vars

\* A two-leg result was appended after a result without legs.
C14_Witness ==
    /\ pc = "summaries"
    /\ Len(searchHistory) >= 2
    /\ "results" \in DOMAIN searchHistory[Len(searchHistory) - 1]
    /\ searchHistory[Len(searchHistory) - 1].results.flights = <<>>
    /\ searchHistory[Len(searchHistory) - 1].totalFlightPrice = 0
    /\ Len(Last(searchHistory).results.flights) = 2
    /\ Last(searchHistory).totalFlightPrice = 3
    /\ Last(searchHistory).results = results

---------------------------------------------------------------------------
(* C15 *)

\* C15: every started search ends with isLoading false again, on the
\* success path and on both failure paths, once the calls it awaits have
\* resolved or rejected; when it ends, an error or the results are set.
C15_SearchEnds ==
    /\ isLoading ~> (~isLoading /\ pc = "idle" /\ (error # NoError \/ results # JNull))
    /\ [][HandlerEnds => (~isLoading' /\ (error' # NoError \/ results' # JNull))]_vars

\* A search that failed after its append has ended, and so has one that
\* failed at the trip-data call.
C15_Witness ==
    /\ pc = "idle"
    /\ ~isLoading
    /\ error = "errorDefault"
    /\ results = JNull
    /\ tripOk = 1
    /\ Len(searchHistory) = 1

====
